---- MODULE Spec2Model ----
(***************************************************************************)
(* The scene graph of compas.scene: SceneObject (sceneobject.py) and       *)
(* MeshObject (meshobject.py).  Every scene object is a tree node with a   *)
(* local frame and a local transformation, display attributes, a lazily    *)
(* cached contrast colour and a list of backend handles; a mesh object     *)
(* adds a lazily cached mapping of view coordinates.                       *)
(*                                                                         *)
(* Python values: None is the empty tuple and any other value v is <<v>>,  *)
(* so that an optional field can always be compared with None.             *)
(* The geometry kernel is the affine group of the line over Z_3: a         *)
(* transformation is x |-> a*x + b, composition is not commutative, and a  *)
(* point is a coordinate in 0..2.                                          *)
(***************************************************************************)
EXTENDS Integers, Sequences, FiniteSets, TLC

VARIABLES
    cls,             \* class of each object slot, "None" before construction
    item,            \* SceneObject._item
    parent,          \* TreeNode._parent (NoObj for None)
    children,        \* TreeNode._children
    frame,           \* SceneObject._frame
    transformation,  \* SceneObject._transformation
    color,           \* SceneObject.color (the descriptor's stored value)
    contrastcolor,   \* SceneObject._contrastcolor
    guids,           \* SceneObject._guids
    mesh,            \* MeshObject._mesh
    vertex_xyz,      \* MeshObject._vertex_xyz
    name,            \* Data.name of the scene object
    opacity,         \* SceneObject.opacity, in percent
    show,            \* SceneObject.show
    show_vertices,   \* MeshObject.show_vertices
    show_edges,      \* MeshObject.show_edges
    show_faces,      \* MeshObject.show_faces
    vertexcolor,     \* MeshObject.vertexcolor (the descriptor's stored mapping)
    edgecolor,       \* MeshObject.edgecolor
    facecolor,       \* MeshObject.facecolor
    vertexsize,      \* MeshObject.vertexsize, in tenths
    edgewidth,       \* MeshObject.edgewidth, in tenths
    context,         \* handles alive in the visualisation context
    last             \* the last call: [op, obj, args, ret]

\* The display attributes besides the colour and its contrast colour.
display == <<name, opacity, show, show_vertices, show_edges, show_faces,
             vertexcolor, edgecolor, facecolor, vertexsize, edgewidth>>

vars == <<cls, item, parent, children, frame, transformation, color,
          contrastcolor, guids, mesh, vertex_xyz, display, context, last>>

----------------------------------------------------------------------------
\* Bounds of the model.

\* Scene objects of the transformation specification, besides the root node.
TransformObjects == 3

\* Object slots of the mesh specification.
MeshSceneObjects == 3

\* Object slots of the colour specification.
ColorObjects == 2

\* Object slots of the drawing specification.
DrawObjects == 3

\* Object slots of the add specification.
NumObjects == 3

\* Backend handles the visualisation context can give out.
NumHandles == 3

\* Object slots of the settings specification.
SettingsObjects == 2

----------------------------------------------------------------------------
\* Python values.

None == <<>>

Some(v) == <<v>>

Val(opt) == opt[1]

NoObj == 0

Objs == DOMAIN cls

\* The scene objects constructed so far (the root of a scene's tree is a
\* plain TreeNode, not a scene object).
Live == {o \in Objs : cls[o] \notin {"None", "TreeNode"}}

Range(s) == {s[i] : i \in DOMAIN s}

Reverse(s) == [i \in 1..Len(s) |-> s[Len(s) + 1 - i]]

\* What a call gave back: a value, nothing, or a raised exception.
Returned(v) == [kind |-> "value", val |-> v]

ReturnsNone == [kind |-> "none", val |-> None]

Raised(e) == [kind |-> "raise", val |-> e]

Call(op, o, args, ret) == [op |-> op, obj |-> o, args |-> args, ret |-> ret]

----------------------------------------------------------------------------
\* compas.geometry: frames, transformations, points.

Identity == [a |-> 1, b |-> 0]

\* X * Y: the transformation that applies Y first, then X.
Mul(X, Y) == [a |-> (X.a * Y.a) % 3, b |-> (X.a * Y.b + X.b) % 3]

from_frame(f) == [a |-> f.axis, b |-> f.origin]

transform_point(p, T) == (T.a * p + T.b) % 3

transform_points(points, T) ==
    [i \in DOMAIN points |-> transform_point(points[i], T)]

\* A translation and a reflection: they do not commute.
F1 == [origin |-> 1, axis |-> 1]

F2 == [origin |-> 0, axis |-> 2]

T1 == [a |-> 2, b |-> 1]

T2 == [a |-> 1, b |-> 2]

----------------------------------------------------------------------------
\* compas.colors: a colour is its lightness in percent.

is_light(c) == c > 50

darkened(c, pct) == (c * (100 - pct)) \div 100

lightened(c, pct) ==
    LET l == (c * (100 + pct)) \div 100 IN IF l > 100 THEN 100 ELSE l

\* Color.coerce: None stays None, a colour is taken as it is.
coerce(c) == c

\* The colour the ColorAttribute descriptor falls back to.
DefaultColor == Some(80)

----------------------------------------------------------------------------
\* Data items and the registry of the context module.

MeshItems == {"mesh1", "mesh2"}

\* compas.datastructures.Mesh: vertices() and vertices_attributes("xyz")
\* go over the vertex keys in the same, stable order.
MeshKeys(m) == IF m = "mesh1" THEN <<0, 1>> ELSE <<5, 2>>

MeshXYZ(m) ==
    IF m = "mesh1" THEN [k \in {0, 1} |-> k] ELSE [k \in {2, 5} |-> k % 3]

vertices(m) == MeshKeys(m)

vertices_attributes(m) == [i \in DOMAIN MeshKeys(m) |-> MeshXYZ(m)[MeshKeys(m)[i]]]

\* get_sceneobject_cls: the class registered for the item's type, or a failure.
get_sceneobject_cls(it) ==
    CASE it \in MeshItems -> "MeshObject"
      [] it = "point"     -> "SceneObject"
      [] it = "shape"     -> "BackendObject"
      [] OTHER            -> "SceneObjectNotRegisteredError"

Registered(it) == get_sceneobject_cls(it) # "SceneObjectNotRegisteredError"

----------------------------------------------------------------------------
\* TreeNode.

is_root(o) == parent[o] = NoObj

RECURSIVE Ancestors(_)
Ancestors(o) ==
    IF parent[o] = NoObj THEN {} ELSE {parent[o]} \cup Ancestors(parent[o])

\* TreeNode.add(node): append the node to the children, link its parent.
TreeNode_add_children(p, c) ==
    [children EXCEPT ![p] = IF c \in Range(@) THEN @ ELSE Append(@, c)]

TreeNode_add_parent(p, c) == [parent EXCEPT ![c] = p]

----------------------------------------------------------------------------
\* SceneObject properties.

guids_get(o) == IF guids[o] # None /\ Val(guids[o]) # <<>> THEN Val(guids[o]) ELSE <<>>

\* The loop of worldtransformation, started at node p: the frames of p and
\* of the nodes above it that are not the root, nearest first.
RECURSIVE frame_stack(_)
frame_stack(p) ==
    IF p = NoObj \/ is_root(p)
    THEN <<>>
    ELSE (IF frame[p] # None THEN <<Val(frame[p])>> ELSE <<>>)
         \o frame_stack(parent[p])

\* functools.reduce(mul, seq) of a non-empty sequence: a left fold.
RECURSIVE reduce_mul(_)
reduce_mul(s) ==
    IF Len(s) = 1
    THEN s[1]
    ELSE Mul(reduce_mul(SubSeq(s, 1, Len(s) - 1)), s[Len(s)])

worldtransformation_unreversed(o) ==
    LET stack    == frame_stack(parent[o])
        matrices == [i \in DOMAIN stack |-> from_frame(stack[i])]
        wt       == IF matrices # <<>> THEN reduce_mul(matrices) ELSE Identity
    IN  IF transformation[o] # None THEN Mul(wt, Val(transformation[o])) ELSE wt

worldtransformation(o) ==
    LET stack    == frame_stack(parent[o])
        matrices == [i \in DOMAIN stack |-> from_frame(stack[i])]
        wt       == IF matrices # <<>>
                    THEN reduce_mul(Reverse(matrices))
                    ELSE Identity
    IN  IF transformation[o] # None THEN Mul(wt, Val(transformation[o])) ELSE wt

\* The getter with the two cases the wrong way round.
contrastcolor_get_swapped(cached, col) ==
    IF cached = None
    THEN IF is_light(Val(col))
         THEN Some(lightened(Val(col), 50))
         ELSE Some(darkened(Val(col), 50))
    ELSE cached

\* The getter without the cache.
contrastcolor_get_uncached(cached, col) ==
    IF is_light(Val(col))
    THEN Some(darkened(Val(col), 50))
    ELSE Some(lightened(Val(col), 50))

\* The contrastcolor getter: the value of _contrastcolor after the read.
contrastcolor_get(cached, col) ==
    IF cached = None
    THEN IF is_light(Val(col))
         THEN Some(darkened(Val(col), 50))
         ELSE Some(lightened(Val(col), 50))
    ELSE cached

----------------------------------------------------------------------------
\* Construction.

\* Keyword options are a record of the options given; an option given as
\* None is Python's None.
NoOptions == [frame |-> None, transformation |-> None, color |-> None]

\* kwargs.get(key, default).
kwargs_get(kw, key, default) == IF key \in DOMAIN kw THEN kw[key] ELSE default

\* The name of a data item: by default the name of its class.
item_name(it) ==
    CASE it \in MeshItems -> "Mesh"
      [] it = "point"     -> "Point"
      [] OTHER            -> "Data"

\* opacity=1.0, in percent.
DefaultOpacity == 100

\* vertexsize=1.0 and edgewidth=1.0, in tenths.
DefaultSize == 10

\* ColorDict(default=c): a mapping of colours with a default colour and no
\* other entry.
ColorDict(c) == [default |-> c]

\* The colour the ColorDictAttribute descriptor falls back to: black.
DefaultDictColor == 0

\* The ColorDictAttribute descriptor, setter then getter: nothing is stored
\* for None and the read then gives a mapping of the descriptor's default;
\* a mapping is stored as it is.  (A colour is given as the mapping that
\* has it as default.)
colordict_set(v) == IF v = None THEN Some(ColorDict(DefaultDictColor)) ELSE v

\* SceneObject.__init__: the fields of the new object.
SceneObject_init(it, kw) ==
    [item           |-> Some(it),
     name           |-> IF kwargs_get(kw, "name", None) # None
                        THEN kw.name
                        ELSE Some(item_name(it)),
     guids          |-> None,
     frame          |-> kwargs_get(kw, "frame", None),
     transformation |-> kwargs_get(kw, "transformation", None),
     contrastcolor  |-> None,
     color          |-> IF kwargs_get(kw, "color", None) = None
                        THEN DefaultColor
                        ELSE coerce(kw.color),
     opacity        |-> kwargs_get(kw, "opacity", Some(DefaultOpacity)),
     show           |-> kwargs_get(kw, "show", Some(TRUE)),
     mesh           |-> None,
     vertex_xyz     |-> None,
     show_vertices  |-> None,
     show_edges     |-> None,
     show_faces     |-> None,
     vertexcolor    |-> None,
     edgecolor      |-> None,
     facecolor      |-> None,
     vertexsize     |-> None,
     edgewidth      |-> None]

\* A constructor of MeshObject that works out the default of vertexcolor and
\* edgecolor without the contrastcolor getter, and so leaves the cache unset.
MeshObject_init_lazy(it, kw) ==
    LET base     == SceneObject_init(it, kw)
        contrast == contrastcolor_get(base.contrastcolor, base.color)
    IN  [base EXCEPT !.mesh           = Some(it),
                     !.transformation = None,
                     !.vertex_xyz     = None,
                     !.vertexcolor    = colordict_set(kwargs_get(kw, "vertexcolor",
                                            Some(ColorDict(Val(contrast))))),
                     !.edgecolor      = colordict_set(kwargs_get(kw, "edgecolor",
                                            Some(ColorDict(Val(contrast))))),
                     !.facecolor      = colordict_set(kwargs_get(kw, "facecolor",
                                            Some(ColorDict(Val(base.color))))),
                     !.vertexsize     = kwargs_get(kw, "vertexsize", Some(DefaultSize)),
                     !.edgewidth      = kwargs_get(kw, "edgewidth", Some(DefaultSize)),
                     !.show_vertices  = kwargs_get(kw, "show_vertices", Some(FALSE)),
                     !.show_edges     = kwargs_get(kw, "show_edges", Some(FALSE)),
                     !.show_faces     = kwargs_get(kw, "show_faces", Some(TRUE))]

\* MeshObject.__init__: the base fields, then the mesh setter (which also
\* resets the transformation), then the reads of contrastcolor that default
\* vertexcolor and edgecolor (the default of kwargs.get is evaluated whether
\* or not the option is given), then the remaining display attributes.
MeshObject_init(it, kw) ==
    LET base     == SceneObject_init(it, kw)
        contrast == contrastcolor_get(base.contrastcolor, base.color)
    IN  [base EXCEPT !.mesh           = Some(it),
                     !.transformation = None,
                     !.vertex_xyz     = None,
                     !.contrastcolor  = contrast,
                     !.vertexcolor    = colordict_set(kwargs_get(kw, "vertexcolor",
                                            Some(ColorDict(Val(contrast))))),
                     !.edgecolor      = colordict_set(kwargs_get(kw, "edgecolor",
                                            Some(ColorDict(Val(contrast))))),
                     !.facecolor      = colordict_set(kwargs_get(kw, "facecolor",
                                            Some(ColorDict(Val(base.color))))),
                     !.vertexsize     = kwargs_get(kw, "vertexsize", Some(DefaultSize)),
                     !.edgewidth      = kwargs_get(kw, "edgewidth", Some(DefaultSize)),
                     !.show_vertices  = kwargs_get(kw, "show_vertices", Some(FALSE)),
                     !.show_edges     = kwargs_get(kw, "show_edges", Some(FALSE)),
                     !.show_faces     = kwargs_get(kw, "show_faces", Some(TRUE))]

\* SceneObject(item, **kwargs): __new__ picks the class, __init__ of that
\* class fills the fields.
Construct(it, kw) ==
    LET c == get_sceneobject_cls(it)
        f == IF c = "MeshObject" THEN MeshObject_init(it, kw) ELSE SceneObject_init(it, kw)
    IN  [f EXCEPT !.item = f.item] @@ [cls |-> c]

\* The slot a new object takes.
FreeSlots == {o \in Objs : cls[o] = "None"}

NewSlot == CHOOSE o \in FreeSlots : \A q \in FreeSlots : o <= q

\* The state with object n constructed as fields f, attached under p
\* (NoObj: not attached).
Install(n, f, p) ==
    /\ cls' = [cls EXCEPT ![n] = f.cls]
    /\ item' = [item EXCEPT ![n] = f.item]
    /\ frame' = [frame EXCEPT ![n] = f.frame]
    /\ transformation' = [transformation EXCEPT ![n] = f.transformation]
    /\ color' = [color EXCEPT ![n] = f.color]
    /\ contrastcolor' = [contrastcolor EXCEPT ![n] = f.contrastcolor]
    /\ guids' = [guids EXCEPT ![n] = f.guids]
    /\ mesh' = [mesh EXCEPT ![n] = f.mesh]
    /\ vertex_xyz' = [vertex_xyz EXCEPT ![n] = f.vertex_xyz]
    /\ name' = [name EXCEPT ![n] = f.name]
    /\ opacity' = [opacity EXCEPT ![n] = f.opacity]
    /\ show' = [show EXCEPT ![n] = f.show]
    /\ show_vertices' = [show_vertices EXCEPT ![n] = f.show_vertices]
    /\ show_edges' = [show_edges EXCEPT ![n] = f.show_edges]
    /\ show_faces' = [show_faces EXCEPT ![n] = f.show_faces]
    /\ vertexcolor' = [vertexcolor EXCEPT ![n] = f.vertexcolor]
    /\ edgecolor' = [edgecolor EXCEPT ![n] = f.edgecolor]
    /\ facecolor' = [facecolor EXCEPT ![n] = f.facecolor]
    /\ vertexsize' = [vertexsize EXCEPT ![n] = f.vertexsize]
    /\ edgewidth' = [edgewidth EXCEPT ![n] = f.edgewidth]
    /\ parent' = IF p = NoObj THEN parent ELSE TreeNode_add_parent(p, n)
    /\ children' = IF p = NoObj THEN children ELSE TreeNode_add_children(p, n)

\* SceneObject(item, **kwargs) called directly.
New(it, kw) ==
    /\ FreeSlots # {}
    /\ IF Registered(it)
       THEN /\ Install(NewSlot, Construct(it, kw), NoObj)
            /\ last' = Call("new", NoObj, <<"Data", it, kw>>, Returned(NewSlot))
       ELSE /\ last' = Call("new", NoObj, <<"Data", it, kw>>,
                            Raised(get_sceneobject_cls(it)))
            /\ UNCHANGED <<cls, item, parent, children, frame, transformation,
                           color, contrastcolor, guids, mesh, vertex_xyz, display>>
    /\ UNCHANGED context

----------------------------------------------------------------------------
\* SceneObject.add.

\* add without the isinstance test: the scene object is taken for a data
\* item, and a new scene object is made for the item it wraps.
AddObject_rewrapped(p, c, kw) ==
    /\ p \in Live /\ c \in Live
    /\ parent[c] = NoObj
    /\ c # p /\ c \notin Ancestors(p)
    /\ FreeSlots # {}
    /\ Install(NewSlot, Construct(Val(item[c]), kw), p)
    /\ last' = Call("add", p, <<"SceneObject", c, kw>>, Returned(NewSlot))
    /\ UNCHANGED context

\* add(item, **kwargs) with a scene object: it is attached as it is and the
\* options are not used.  The node is a detached one that is not above p,
\* so that the links stay a tree.
AddObject(p, c, kw) ==
    /\ p \in Live /\ c \in Live
    /\ parent[c] = NoObj
    /\ c # p /\ c \notin Ancestors(p)
    /\ parent' = TreeNode_add_parent(p, c)
    /\ children' = TreeNode_add_children(p, c)
    /\ last' = Call("add", p, <<"SceneObject", c, kw>>, Returned(c))
    /\ UNCHANGED <<cls, item, frame, transformation, color, contrastcolor,
                   guids, mesh, vertex_xyz, context, display>>

\* add that falls back to the base class when no class is registered.
AddItem_fallback(p, it, kw) ==
    /\ p \in Live
    /\ FreeSlots # {}
    /\ Install(NewSlot,
               IF Registered(it)
               THEN Construct(it, kw)
               ELSE SceneObject_init(it, kw) @@ [cls |-> "SceneObject"],
               p)
    /\ last' = Call("add", p, <<"Data", it, kw>>, Returned(NewSlot))
    /\ UNCHANGED context

\* add(item, **kwargs) with a data item: a scene object is constructed for
\* it and attached; a failure of the construction leaves add at once.
AddItem(p, it, kw) ==
    /\ p \in Live
    /\ FreeSlots # {}
    /\ IF Registered(it)
       THEN /\ Install(NewSlot, Construct(it, kw), p)
            /\ last' = Call("add", p, <<"Data", it, kw>>, Returned(NewSlot))
       ELSE /\ last' = Call("add", p, <<"Data", it, kw>>,
                            Raised(get_sceneobject_cls(it)))
            /\ UNCHANGED <<cls, item, parent, children, frame, transformation,
                           color, contrastcolor, guids, mesh, vertex_xyz, display>>
    /\ UNCHANGED context

\* Scene.add(item, **kwargs) with no parent given: a scene object is
\* constructed for the item and added to the root node of the scene's tree.
SceneAddItem(it, kw) ==
    /\ FreeSlots # {}
    /\ Registered(it)
    /\ \E r \in Objs :
          /\ cls[r] = "TreeNode"
          /\ Install(NewSlot, Construct(it, kw), r)
          /\ last' = Call("scene_add", r, <<"Data", it, kw>>, Returned(NewSlot))
    /\ UNCHANGED context

----------------------------------------------------------------------------
\* Setters and reads of SceneObject.

\* The frame setter.
SetFrame(o, f) ==
    /\ o \in Live
    /\ frame' = [frame EXCEPT ![o] = f]
    /\ last' = Call("set_frame", o, <<f>>, ReturnsNone)
    /\ UNCHANGED <<cls, item, parent, children, transformation, color,
                   contrastcolor, guids, mesh, vertex_xyz, context, display>>

\* The transformation setter without MeshObject's override.
SetTransformation_inherited(o, t) ==
    /\ o \in Live
    /\ transformation' = [transformation EXCEPT ![o] = t]
    /\ last' = Call("set_transformation", o, <<t>>, ReturnsNone)
    /\ UNCHANGED <<cls, item, parent, children, frame, color, contrastcolor,
                   guids, mesh, vertex_xyz, context, display>>

\* The transformation setter: SceneObject's, and MeshObject's override,
\* which empties the cache of view coordinates first.
SetTransformation(o, t) ==
    /\ o \in Live
    /\ transformation' = [transformation EXCEPT ![o] = t]
    /\ vertex_xyz' = IF cls[o] = "MeshObject"
                     THEN [vertex_xyz EXCEPT ![o] = None]
                     ELSE vertex_xyz
    /\ last' = Call("set_transformation", o, <<t>>, ReturnsNone)
    /\ UNCHANGED <<cls, item, parent, children, frame, color, contrastcolor,
                   guids, mesh, context, display>>

ReadWorldTransformation(o) ==
    /\ o \in Live
    /\ last' = Call("worldtransformation", o, <<>>, Returned(worldtransformation(o)))
    /\ UNCHANGED <<cls, item, parent, children, frame, transformation, color,
                   contrastcolor, guids, mesh, vertex_xyz, context, display>>

\* The colour descriptor's setter.
SetColor(o, c) ==
    /\ o \in Live
    /\ color' = [color EXCEPT ![o] = coerce(c)]
    /\ last' = Call("set_color", o, <<c>>, ReturnsNone)
    /\ UNCHANGED <<cls, item, parent, children, frame, transformation,
                   contrastcolor, guids, mesh, vertex_xyz, context, display>>

\* The getter's value after the read, for object o.
contrastcolor_read(o) == contrastcolor_get(contrastcolor[o], color[o])

ReadContrastColor(o) ==
    /\ o \in Live
    /\ contrastcolor' = [contrastcolor EXCEPT ![o] = contrastcolor_read(o)]
    /\ last' = Call("contrastcolor", o, <<>>, Returned(Val(contrastcolor_read(o))))
    /\ UNCHANGED <<cls, item, parent, children, frame, transformation, color,
                   guids, mesh, vertex_xyz, context, display>>

\* The contrastcolor setter.
SetContrastColor(o, c) ==
    /\ o \in Live
    /\ contrastcolor' = [contrastcolor EXCEPT ![o] = coerce(c)]
    /\ last' = Call("set_contrastcolor", o, <<c>>, ReturnsNone)
    /\ UNCHANGED <<cls, item, parent, children, frame, transformation, color,
                   guids, mesh, vertex_xyz, context, display>>

----------------------------------------------------------------------------
\* Drawing and clearing.

Handles == 1..NumHandles

\* The lists of handles a draw can get from the context: new ones only.
NewHandles ==
    {<<h>> : h \in Handles \ context}
    \cup {hs \in (Handles \ context) \X (Handles \ context) : hs[1] # hs[2]}

\* draw() of a class of a visualisation context: the objects it draws are
\* kept as the handle list and returned.
BackendDraw(o, hs) ==
    /\ o \in Live /\ cls[o] = "BackendObject"
    /\ hs \in NewHandles
    /\ guids' = [guids EXCEPT ![o] = Some(hs)]
    /\ context' = context \cup Range(hs)
    /\ last' = Call("draw", o, <<>>, Returned(hs))
    /\ UNCHANGED <<cls, item, parent, children, frame, transformation, color,
                   contrastcolor, mesh, vertex_xyz, display>>

\* An operation that ends in an exception and touches nothing.
Fails(o, op, args, e) ==
    /\ last' = Call(op, o, args, Raised(e))
    /\ UNCHANGED <<cls, item, parent, children, frame, transformation, color,
                   contrastcolor, guids, mesh, vertex_xyz, context, display>>

\* SceneObject.draw, not overridden.
SceneObject_draw(o) ==
    /\ o \in Live /\ cls[o] = "SceneObject"
    /\ Fails(o, "draw", <<>>, "NotImplementedError")

\* clear that forgets to reset the handle list.
SceneObject_clear_keeps(o) ==
    /\ o \in Live /\ cls[o] \in {"SceneObject", "BackendObject"}
    /\ context' = context \ Range(guids_get(o))
    /\ last' = Call("clear", o, <<guids_get(o)>>, ReturnsNone)
    /\ UNCHANGED <<cls, item, parent, children, frame, transformation, color,
                   contrastcolor, guids, mesh, vertex_xyz, display>>

\* SceneObject.clear, for the classes that inherit it: the handle list goes
\* to the context's clear (recorded as the call's argument), then it is reset.
SceneObject_clear(o) ==
    /\ o \in Live /\ cls[o] \in {"SceneObject", "BackendObject"}
    /\ context' = context \ Range(guids_get(o))
    /\ guids' = [guids EXCEPT ![o] = None]
    /\ last' = Call("clear", o, <<guids_get(o)>>, ReturnsNone)
    /\ UNCHANGED <<cls, item, parent, children, frame, transformation, color,
                   contrastcolor, mesh, vertex_xyz, display>>

\* The operations of MeshObject whose body only raises.
MeshStubs ==
    {"draw", "draw_vertices", "draw_edges", "draw_faces",
     "clear", "clear_vertices", "clear_edges", "clear_faces"}

\* A stub that returns None instead of raising.
MeshObject_stub_silent(o, op) ==
    /\ o \in Live /\ cls[o] = "MeshObject"
    /\ op \in MeshStubs
    /\ last' = Call(op, o, <<>>, ReturnsNone)
    /\ UNCHANGED <<cls, item, parent, children, frame, transformation, color,
                   contrastcolor, guids, mesh, vertex_xyz, context, display>>

MeshObject_stub(o, op) ==
    /\ o \in Live /\ cls[o] = "MeshObject"
    /\ op \in MeshStubs
    /\ Fails(o, op, <<>>, "NotImplementedError")

\* MeshObject.draw_mesh(*args): it calls self.draw(*args); draw takes no
\* argument, so with one the call itself is a TypeError.
MeshObject_draw_mesh(o, args) ==
    /\ o \in Live /\ cls[o] = "MeshObject"
    /\ IF args = <<>>
       THEN Fails(o, "draw_mesh", args, "NotImplementedError")
       ELSE Fails(o, "draw_mesh", args, "TypeError")

----------------------------------------------------------------------------
\* MeshObject: the mesh, and the cache of view coordinates.

\* A mesh setter that takes the new mesh for the wrapped item as well.
SetMesh_rewraps(o, m) ==
    /\ o \in Live /\ cls[o] = "MeshObject"
    /\ mesh' = [mesh EXCEPT ![o] = Some(m)]
    /\ item' = [item EXCEPT ![o] = Some(m)]
    /\ transformation' = [transformation EXCEPT ![o] = None]
    /\ vertex_xyz' = [vertex_xyz EXCEPT ![o] = None]
    /\ last' = Call("set_mesh", o, <<m>>, ReturnsNone)
    /\ UNCHANGED <<cls, parent, children, frame, color, contrastcolor,
                   guids, context, display>>

\* The mesh setter: it also resets the transformation and empties the cache.
SetMesh(o, m) ==
    /\ o \in Live /\ cls[o] = "MeshObject"
    /\ mesh' = [mesh EXCEPT ![o] = Some(m)]
    /\ transformation' = [transformation EXCEPT ![o] = None]
    /\ vertex_xyz' = [vertex_xyz EXCEPT ![o] = None]
    /\ last' = Call("set_mesh", o, <<m>>, ReturnsNone)
    /\ UNCHANGED <<cls, item, parent, children, frame, color, contrastcolor,
                   guids, context, display>>

\* dict(zip(keys, values)).
dict_zip(keys, values) ==
    [k \in Range(keys) |-> values[CHOOSE i \in DOMAIN keys : keys[i] = k]]

\* What the vertex_xyz getter computes when the cache is empty.
compute_vertex_xyz(o) ==
    LET points      == vertices_attributes(Val(mesh[o]))
        transformed == transform_points(points, worldtransformation(o))
    IN  dict_zip(vertices(Val(mesh[o])), transformed)

vertex_xyz_recomputed(o) == Some(compute_vertex_xyz(o))

\* The vertex_xyz getter: the value of _vertex_xyz after the read, which is
\* what the read returns.
vertex_xyz_get(o) ==
    IF vertex_xyz[o] = None THEN Some(compute_vertex_xyz(o)) ELSE vertex_xyz[o]

ReadVertexXYZ(o) ==
    /\ o \in Live /\ cls[o] = "MeshObject"
    /\ vertex_xyz' = [vertex_xyz EXCEPT ![o] = vertex_xyz_get(o)]
    /\ last' = Call("vertex_xyz", o, <<>>, Returned(Val(vertex_xyz_get(o))))
    /\ UNCHANGED <<cls, item, parent, children, frame, transformation, color,
                   contrastcolor, guids, mesh, context, display>>

\* The vertex_xyz setter, given a mapping.
SetVertexXYZ(o, xyz) ==
    /\ o \in Live /\ cls[o] = "MeshObject"
    /\ vertex_xyz' = [vertex_xyz EXCEPT ![o] = Some(xyz)]
    /\ last' = Call("set_vertex_xyz", o, <<xyz>>, ReturnsNone)
    /\ UNCHANGED <<cls, item, parent, children, frame, transformation, color,
                   contrastcolor, guids, mesh, context, display>>

----------------------------------------------------------------------------
\* Settings and the plain display attributes.

\* SceneObject.settings: frame and transformation are entries only when set.
SceneObject_settings(o) ==
    LET base      == [name    |-> name[o],
                      color   |-> color[o],
                      opacity |-> opacity[o],
                      show    |-> show[o]]
        withFrame == IF frame[o] # None
                     THEN base @@ [frame |-> frame[o]]
                     ELSE base
    IN  IF transformation[o] # None
        THEN withFrame @@ [transformation |-> transformation[o]]
        ELSE withFrame

\* MeshObject.settings: the base mapping and six more entries.
MeshObject_settings(o) ==
    SceneObject_settings(o) @@
        [show_vertices |-> show_vertices[o],
         show_edges    |-> show_edges[o],
         show_faces    |-> show_faces[o],
         vertexcolor   |-> vertexcolor[o],
         edgecolor     |-> edgecolor[o],
         facecolor     |-> facecolor[o]]

\* o.settings, by the class of o.
settings(o) ==
    IF cls[o] = "MeshObject" THEN MeshObject_settings(o) ELSE SceneObject_settings(o)

ReadSettings(o) ==
    /\ o \in Live
    /\ last' = Call("settings", o, <<>>, Returned(settings(o)))
    /\ UNCHANGED <<cls, item, parent, children, frame, transformation, color,
                   contrastcolor, guids, mesh, vertex_xyz, context, display>>

\* o.show = b: a plain attribute.
SetShow(o, b) ==
    /\ o \in Live
    /\ show' = [show EXCEPT ![o] = b]
    /\ last' = Call("set_show", o, <<b>>, ReturnsNone)
    /\ UNCHANGED <<cls, item, parent, children, frame, transformation, color,
                   contrastcolor, guids, mesh, vertex_xyz, context>>
    /\ UNCHANGED <<name, opacity, show_vertices, show_edges, show_faces,
                   vertexcolor, edgecolor, facecolor, vertexsize, edgewidth>>

\* o.show_edges = b on a mesh object: a plain attribute.
SetShowEdges(o, b) ==
    /\ o \in Live /\ cls[o] = "MeshObject"
    /\ show_edges' = [show_edges EXCEPT ![o] = b]
    /\ last' = Call("set_show_edges", o, <<b>>, ReturnsNone)
    /\ UNCHANGED <<cls, item, parent, children, frame, transformation, color,
                   contrastcolor, guids, mesh, vertex_xyz, context>>
    /\ UNCHANGED <<name, opacity, show, show_vertices, show_faces,
                   vertexcolor, edgecolor, facecolor, vertexsize, edgewidth>>

----------------------------------------------------------------------------
\* Initial states.

\* No scene object is constructed yet; slot 1 holds the root node of the
\* scene's tree when the scene has one.
Start(n, withRoot) ==
    /\ cls = [o \in 1..n |-> IF withRoot /\ o = 1 THEN "TreeNode" ELSE "None"]
    /\ item = [o \in 1..n |-> None]
    /\ parent = [o \in 1..n |-> NoObj]
    /\ children = [o \in 1..n |-> <<>>]
    /\ frame = [o \in 1..n |-> None]
    /\ transformation = [o \in 1..n |-> None]
    /\ color = [o \in 1..n |-> None]
    /\ contrastcolor = [o \in 1..n |-> None]
    /\ guids = [o \in 1..n |-> None]
    /\ mesh = [o \in 1..n |-> None]
    /\ vertex_xyz = [o \in 1..n |-> None]
    /\ name = [o \in 1..n |-> None]
    /\ opacity = [o \in 1..n |-> None]
    /\ show = [o \in 1..n |-> None]
    /\ show_vertices = [o \in 1..n |-> None]
    /\ show_edges = [o \in 1..n |-> None]
    /\ show_faces = [o \in 1..n |-> None]
    /\ vertexcolor = [o \in 1..n |-> None]
    /\ edgecolor = [o \in 1..n |-> None]
    /\ facecolor = [o \in 1..n |-> None]
    /\ vertexsize = [o \in 1..n |-> None]
    /\ edgewidth = [o \in 1..n |-> None]
    /\ context = {}
    /\ last = Call("init", NoObj, <<>>, ReturnsNone)

----------------------------------------------------------------------------
\* The transformation specification: scene objects, detached or in the tree
\* of a scene, constructed with frames and transformations, and the reads
\* of their world transformation.

TransformItems == {"point"}

TransformOptions ==
    {[frame |-> f, transformation |-> t, color |-> None] :
        f \in {None, Some(F1), Some(F2)}, t \in {None, Some(T1)}}

InitTransform == Start(TransformObjects + 1, TRUE)

NextTransform ==
    \/ \E it \in TransformItems, kw \in TransformOptions : New(it, kw)
    \/ \E it \in TransformItems, kw \in TransformOptions : SceneAddItem(it, kw)
    \/ \E p \in Objs, it \in TransformItems, kw \in TransformOptions : AddItem(p, it, kw)
    \/ \E o \in Objs : ReadWorldTransformation(o)

SpecTransform == InitTransform /\ [][NextTransform]_vars

\* The nodes above o, the outermost first, down to the parent of o.
RECURSIVE AncestorChain(_)
AncestorChain(o) ==
    IF parent[o] = NoObj THEN <<>> ELSE Append(AncestorChain(parent[o]), parent[o])

\* The product of the transformations of the frames along a chain, the
\* first node's frame applied outermost; a node that is the root of its
\* tree or has no frame contributes nothing.
RECURSIVE FrameProduct(_)
FrameProduct(chain) ==
    IF chain = <<>>
    THEN Identity
    ELSE LET a == Head(chain)
         IN  IF is_root(a) \/ frame[a] = None
             THEN FrameProduct(Tail(chain))
             ELSE Mul(from_frame(Val(frame[a])), FrameProduct(Tail(chain)))

AncestorTransformation(o) ==
    IF transformation[o] = None
    THEN FrameProduct(AncestorChain(o))
    ELSE Mul(FrameProduct(AncestorChain(o)), Val(transformation[o]))

C2_OwnFrameContributes ==
    \A A \in Live, B \in Live :
        (/\ last.op = "worldtransformation" /\ last.obj = B
         /\ parent[B] = A /\ parent[A] # NoObj /\ is_root(parent[A])
         /\ frame[A] # None /\ frame[B] # None /\ transformation[B] # None)
        => last.ret = Returned(Mul(Mul(from_frame(Val(frame[A])),
                                       from_frame(Val(frame[B]))),
                                   Val(transformation[B])))

----------------------------------------------------------------------------
\* The mesh specification: a mesh object below other scene objects, its
\* mesh, its transformation, the frames above it and its view coordinates.

\* At most this many mesh objects are constructed.
MaxMeshObjects == 1

MeshSpecItems ==
    IF Cardinality({o \in Objs : cls[o] = "MeshObject"}) < MaxMeshObjects
    THEN {"point", "mesh1"}
    ELSE {"point"}

MeshSpecOptions ==
    {NoOptions, [frame |-> Some(F1), transformation |-> Some(T2), color |-> None]}

MeshSpecFrames == {None, Some(F1)}

MeshSpecTransformations == {None, Some(T1)}

\* A mapping given to the vertex_xyz setter; it is no image of a mesh.
X1 == [k \in {0, 1} |-> 2]

InitMesh == Start(MeshSceneObjects, FALSE)

NextMesh ==
    \/ \E it \in MeshSpecItems, kw \in MeshSpecOptions : New(it, kw)
    \/ \E p \in Objs, it \in MeshSpecItems, kw \in MeshSpecOptions : AddItem(p, it, kw)
    \/ \E o \in Objs, f \in MeshSpecFrames : SetFrame(o, f)
    \/ \E o \in Objs, t \in MeshSpecTransformations : SetTransformation(o, t)
    \/ \E o \in Objs, m \in MeshItems : SetMesh(o, m)
    \/ \E o \in Objs : ReadVertexXYZ(o)
    \/ \E o \in Objs : SetVertexXYZ(o, X1)

SpecMesh == InitMesh /\ [][NextMesh]_vars

\* The view coordinates of o as its state is: the vertex keys of its mesh,
\* each with its coordinate moved by the world transformation.
ViewCoordinates(o) ==
    LET m == Val(mesh[o])
    IN  [k \in DOMAIN MeshXYZ(m) |->
            transform_point(MeshXYZ(m)[k], AncestorTransformation(o))]

\* C3: assigning the mesh or the transformation of a mesh object empties
\* the cache of view coordinates, whatever it held (a computed mapping or one
\* given to the setter); an empty cache is filled only by a read or by the
\* setter; a read on an empty cache returns, and caches, the mapping from the
\* current mesh's vertex keys to its coordinates moved by the world
\* transformation as it is at the read.
C3_ReassignInvalidates ==
    [][LET o == last'.obj
       IN  /\ (last'.op \in {"set_mesh", "set_transformation"} /\ cls[o] = "MeshObject")
               => vertex_xyz'[o] = None
           /\ \A q \in Objs :
                 (vertex_xyz[q] = None /\ vertex_xyz'[q] # None)
                 => (last'.obj = q /\ last'.op \in {"vertex_xyz", "set_vertex_xyz"})
           /\ (last'.op = "vertex_xyz" /\ vertex_xyz[o] = None)
               => /\ last'.ret = Returned(ViewCoordinates(o))
                  /\ vertex_xyz'[o] = Some(ViewCoordinates(o))
    ]_vars

\* A read after the mesh was replaced, below an ancestor with a frame: the
\* mapping has the keys of the second mesh and is not its real coordinates.
C3_Witness ==
    /\ last.op = "vertex_xyz"
    /\ mesh[last.obj] = Some("mesh2")
    /\ last.ret = Returned(ViewCoordinates(last.obj))
    /\ last.ret.val # MeshXYZ("mesh2")
    /\ transformation[last.obj] # None

\* C4: a cache of view coordinates that holds a mapping keeps it until the
\* object's own mesh, transformation or vertex_xyz is assigned, and a read
\* returns it as it is; a new frame on an ancestor or on the object itself
\* does not empty it.
C4_CacheKept ==
    [][/\ \A q \in Objs :
             vertex_xyz[q] # None
             => \/ vertex_xyz'[q] = vertex_xyz[q]
                \/ /\ last'.obj = q
                   /\ last'.op \in {"set_mesh", "set_transformation", "set_vertex_xyz"}
       /\ (last'.op = "vertex_xyz" /\ vertex_xyz[last'.obj] # None)
           => last'.ret = Returned(Val(vertex_xyz[last'.obj]))
       /\ last'.op = "set_frame" => vertex_xyz' = vertex_xyz
    ]_vars

\* A read returns a computed mapping that the frames above no longer give:
\* the world transformation has changed since it was cached.
C4_Witness ==
    /\ last.op = "vertex_xyz"
    /\ last.ret.val # X1
    /\ last.ret = Returned(Val(vertex_xyz[last.obj]))
    /\ last.ret # Returned(ViewCoordinates(last.obj))
    /\ parent[last.obj] # NoObj

\* C13: assigning a mesh to a MeshObject stores the mesh, resets the local
\* transformation to unset and empties the cache of view coordinates, and
\* changes nothing else: the wrapped item, the frame, the colour and the
\* contrast colour, the handle list, the tree links and the other display
\* attributes of the object are as before, and so is every other object.
C13_MeshReassign ==
    [][last'.op = "set_mesh" =>
        LET o == last'.obj
        IN  /\ mesh' = [mesh EXCEPT ![o] = Some(last'.args[1])]
            /\ transformation' = [transformation EXCEPT ![o] = None]
            /\ vertex_xyz' = [vertex_xyz EXCEPT ![o] = None]
            /\ item' = item
            /\ frame' = frame
            /\ color' = color
            /\ contrastcolor' = contrastcolor
            /\ guids' = guids
            /\ parent' = parent
            /\ children' = children
            /\ UNCHANGED <<cls, context, display>>
    ]_vars

\* A mesh object with a frame and a parent has been given a mesh that is
\* not the item it wraps: item and mesh differ, the transformation is unset
\* and the cache is empty.
C13_Witness ==
    /\ last.op = "set_mesh"
    /\ mesh[last.obj] # item[last.obj]
    /\ frame[last.obj] # None
    /\ parent[last.obj] # NoObj
    /\ transformation[last.obj] = None
    /\ vertex_xyz[last.obj] = None

----------------------------------------------------------------------------
\* The colour specification: colours and contrast colours.

ColorItems == {"point", "mesh1"}

Colors == {None, Some(20), Some(90)}

ColorOptions == {[frame |-> None, transformation |-> None, color |-> c] : c \in Colors}

ContrastColors == {None, Some(10)}

InitColor == Start(ColorObjects, FALSE)

NextColor ==
    \/ \E it \in ColorItems, kw \in ColorOptions : New(it, kw)
    \/ \E o \in Objs, c \in Colors \ {None} : SetColor(o, c)
    \/ \E o \in Objs : ReadContrastColor(o)
    \/ \E o \in Objs, c \in ContrastColors : SetContrastColor(o, c)

SpecColor == InitColor /\ [][NextColor]_vars

\* A colour darker by half, and lighter by half.
HalfDarker(c) == c \div 2

HalfLighter(c) == IF c + c \div 2 > 100 THEN 100 ELSE c + c \div 2

\* C5: a read of contrastcolor with nothing cached or set returns the
\* colour darkened by 50% when the object's colour is light, and the colour
\* lightened by 50% when it is not.
C5_ContrastOfColor ==
    [][(last'.op = "contrastcolor" /\ contrastcolor[last'.obj] = None) =>
        LET c == Val(color[last'.obj])
        IN  last'.ret = Returned(IF is_light(c) THEN HalfDarker(c) ELSE HalfLighter(c))
    ]_vars

\* A read has given the lighter variant of a dark colour.
C5_Witness ==
    /\ last.op = "contrastcolor"
    /\ color[last.obj] = Some(20)
    /\ last.ret = Returned(30)
    /\ cls[last.obj] = "SceneObject"

ContrastOf(c) == IF is_light(c) THEN HalfDarker(c) ELSE HalfLighter(c)

\* The construction of a mesh object leaves the contrast of its colour in
\* the cache.
ConstructionPopulates ==
    (/\ last'.op = "new" /\ last'.ret.kind = "value"
     /\ cls'[last'.ret.val] = "MeshObject")
    => contrastcolor'[last'.ret.val] = Some(ContrastOf(Val(color'[last'.ret.val])))

\* The cache of a mesh object is written by nothing but an assignment to
\* contrastcolor, which stores the assigned value.
OnlyAssignmentWrites ==
    \A q \in Live :
        cls[q] = "MeshObject"
        => \/ contrastcolor'[q] = contrastcolor[q]
           \/ /\ last'.op = "set_contrastcolor" /\ last'.obj = q
              /\ contrastcolor'[q] = last'.args[1]

\* C14 as it is stated: the cache of every mesh object is populated from
\* the construction on, in every reachable state; it holds the contrast of
\* the colour of the construction until a value is assigned and that value
\* afterwards; a read returns what the cache holds, whatever the colour of
\* the object has become.
C14_ContrastFixed ==
    /\ [](\A q \in Live : cls[q] = "MeshObject" => contrastcolor[q] # None)
    /\ [][/\ ConstructionPopulates
          /\ OnlyAssignmentWrites
          /\ (last'.op = "contrastcolor" /\ cls[last'.obj] = "MeshObject")
              => /\ contrastcolor[last'.obj] # None
                 /\ last'.ret = Returned(Val(contrastcolor[last'.obj]))
       ]_vars

\* C14, amended: the cache of a mesh object is populated by the
\* construction and is empty afterwards only when None was assigned to
\* contrastcolor; nothing but an assignment to contrastcolor, or the read
\* that follows an assignment of None, writes it; a read with the cache
\* populated returns what the cache holds, whatever the colour has become,
\* and a read with the cache emptied gives the contrast of the colour of
\* that moment.
C14_ContrastFixedUnlessReset ==
    [][/\ ConstructionPopulates
       /\ \A q \in Live :
             (cls[q] = "MeshObject" /\ contrastcolor[q] # None) =>
                 \/ contrastcolor'[q] = contrastcolor[q]
                 \/ /\ last'.op = "set_contrastcolor" /\ last'.obj = q
                    /\ contrastcolor'[q] = last'.args[1]
       /\ \A q \in Live :
             (cls[q] = "MeshObject" /\ contrastcolor[q] = None) =>
                 \/ contrastcolor'[q] = None
                 \/ /\ last'.op = "set_contrastcolor" /\ last'.obj = q
                    /\ contrastcolor'[q] = last'.args[1]
                 \/ /\ last'.op = "contrastcolor" /\ last'.obj = q
                    /\ contrastcolor'[q] = Some(ContrastOf(Val(color[q])))
       /\ (last'.op = "contrastcolor" /\ cls[last'.obj] = "MeshObject") =>
             last'.ret = Returned(IF contrastcolor[last'.obj] # None
                                  THEN Val(contrastcolor[last'.obj])
                                  ELSE ContrastOf(Val(color[last'.obj])))
    ]_vars

\* A mesh object made with a light colour and given a dark one afterwards:
\* the read returns the contrast of the colour of the construction.
C14_Witness ==
    /\ last.op = "contrastcolor"
    /\ cls[last.obj] = "MeshObject"
    /\ color[last.obj] = Some(20)
    /\ last.ret = Returned(45)
    /\ contrastcolor[last.obj] = Some(45)

----------------------------------------------------------------------------
\* The drawing specification: draw, clear and the stubs of MeshObject.

DrawItems == {"point", "mesh1", "shape"}

InitDraw == Start(DrawObjects, FALSE)

NextDraw ==
    \/ \E it \in DrawItems : New(it, NoOptions)
    \/ \E o \in Objs, hs \in NewHandles : BackendDraw(o, hs)
    \/ \E o \in Objs : SceneObject_draw(o)
    \/ \E o \in Objs : SceneObject_clear(o)
    \/ \E o \in Objs, op \in MeshStubs : MeshObject_stub(o, op)
    \/ \E o \in Objs, args \in {<<>>, <<"arg">>} : MeshObject_draw_mesh(o, args)

SpecDraw == InitDraw /\ [][NextDraw]_vars

\* C8 as stated: clear() on any scene object, a mesh object too, hands the
\* handle list to the context's clear, succeeds, and leaves the handle list
\* empty.
C8_ClearAnyObject ==
    last.op = "clear" =>
        /\ last.ret = ReturnsNone
        /\ guids_get(last.obj) = <<>>

\* C8, amended: clear() on a scene object whose class inherits
\* SceneObject.clear hands the handle list as it is to the context's clear
\* and leaves the handle list empty, whatever it held; on an empty list it
\* succeeds too and leaves it empty.
C8_ClearInherited ==
    [][(last'.op = "clear" /\ cls[last'.obj] # "MeshObject") =>
        LET o == last'.obj
        IN  /\ last'.ret = ReturnsNone
            /\ last'.args = <<guids_get(o)>>
            /\ context' = context \ Range(guids_get(o))
            /\ guids'[o] = None
            /\ \A q \in Objs \ {o} : guids'[q] = guids[q]
    ]_vars

\* clear() has released a list of two handles while a handle that is not in
\* the list stays alive in the context.
C8_Witness ==
    /\ last.op = "clear"
    /\ cls[last.obj] = "BackendObject"
    /\ Len(last.args[1]) = 2
    /\ guids[last.obj] = None
    /\ context # {}

\* C9: draw() on a SceneObject without an override, and draw(), draw_mesh(),
\* draw_vertices(), draw_edges(), draw_faces(), clear(), clear_vertices(),
\* clear_edges() and clear_faces() on a MeshObject, end in
\* NotImplementedError and change nothing of any object.
C9_AbstractOperations ==
    [][(\/ last'.op = "draw" /\ cls[last'.obj] = "SceneObject"
        \/ /\ last'.op \in MeshStubs \cup {"draw_mesh"}
           /\ cls[last'.obj] = "MeshObject"
           /\ last'.args = <<>>) =>
        /\ last'.ret = Raised("NotImplementedError")
        /\ UNCHANGED <<cls, item, parent, children, frame, transformation,
                       color, contrastcolor, guids, mesh, vertex_xyz, context, display>>
    ]_vars

\* clear() on a mesh object has ended in NotImplementedError while handles
\* of another object are alive in the context.
C9_Witness ==
    /\ last.op = "clear"
    /\ cls[last.obj] = "MeshObject"
    /\ last.ret = Raised("NotImplementedError")
    /\ context # {}

----------------------------------------------------------------------------
\* The add specification: construction through the registry and add.

AddItems == {"point", "mesh1", "unregistered"}

AddOptions ==
    {NoOptions, [frame |-> Some(F1), transformation |-> Some(T1), color |-> Some(20)]}

InitAdd == Start(NumObjects, FALSE)

NextAdd ==
    \/ \E it \in AddItems, kw \in AddOptions : New(it, kw)
    \/ \E p \in Objs, c \in Objs, kw \in AddOptions : AddObject(p, c, kw)
    \/ \E p \in Objs, it \in AddItems, kw \in AddOptions : AddItem(p, it, kw)

SpecAdd == InitAdd /\ [][NextAdd]_vars

\* Everything an object holds besides its tree links.
Fields(o) ==
    <<cls[o], item[o], frame[o], transformation[o], color[o], contrastcolor[o],
      guids[o], mesh[o], vertex_xyz[o]>>

\* The same after the step.
FieldsAfter(o) ==
    <<cls'[o], item'[o], frame'[o], transformation'[o], color'[o],
      contrastcolor'[o], guids'[o], mesh'[o], vertex_xyz'[o]>>

\* C7: parent.add(item) returns the attached child, now a child of parent.
\* A scene object is attached as it is: the same object is returned, no
\* object is constructed, no attribute changes.  For a data item exactly
\* one scene object is constructed, of the class the registry gives for the
\* item and with the given options, and that one is attached and returned.
C7_AddAttaches ==
    [][(last'.op = "add" /\ last'.ret.kind = "value") =>
        LET p   == last'.obj
            c   == last'.ret.val
            arg == last'.args
        IN  /\ parent'[c] = p
            /\ c \in Range(children'[p])
            /\ \A o \in Objs \ {c} : FieldsAfter(o) = Fields(o) /\ parent'[o] = parent[o]
            /\ IF arg[1] = "SceneObject"
               THEN /\ c = arg[2]
                    /\ Live' = Live
                    /\ FieldsAfter(c) = Fields(c)
               ELSE /\ c \notin Live
                    /\ Live' = Live \cup {c}
                    /\ cls'[c] = get_sceneobject_cls(arg[2])
                    /\ item'[c] = Some(arg[2])
                    /\ frame'[c] = arg[3].frame
                    /\ color'[c] = IF arg[3].color = None
                                   THEN DefaultColor
                                   ELSE arg[3].color
    ]_vars

\* add has attached an existing scene object, which has a child of its own
\* that add made for a data item with options.
C7_Witness ==
    /\ last.op = "add"
    /\ last.args[1] = "SceneObject"
    /\ last.ret = Returned(last.args[2])
    /\ parent[last.args[2]] = last.obj
    /\ \E g \in Live : parent[g] = last.args[2] /\ frame[g] # None

\* C10: with no class registered for the item's type the construction fails
\* with the lookup error, and parent.add(item) ends in that same error with
\* nothing attached: no object is made, the children of the parent and the
\* parent link of every node are as before.
C10_LookupFailure ==
    [][(/\ last'.op \in {"new", "add"}
        /\ last'.args[1] = "Data"
        /\ ~Registered(last'.args[2])) =>
        /\ last'.ret = Raised("SceneObjectNotRegisteredError")
        /\ UNCHANGED <<cls, item, parent, children, frame, transformation,
                       color, contrastcolor, guids, mesh, vertex_xyz, context, display>>
    ]_vars

\* add has failed on a parent that has a child already.
C10_Witness ==
    /\ last.op = "add"
    /\ last.ret.kind = "raise"
    /\ children[last.obj] # <<>>

----------------------------------------------------------------------------
\* The settings specification: scene objects constructed with display
\* options, or with the settings of an object that exists already.

SettingsItems == {"point", "mesh1"}

SettingsOptions ==
    {NoOptions,
     [name |-> Some("a"), color |-> Some(20), opacity |-> Some(50),
      show |-> Some(FALSE), frame |-> Some(F1)],
     [transformation |-> Some(T1)],
     [show_vertices |-> Some(TRUE), show_edges |-> Some(TRUE),
      show_faces |-> Some(FALSE), vertexcolor |-> Some(ColorDict(90)),
      facecolor |-> Some(ColorDict(20))]}

InitSettings == Start(SettingsObjects, FALSE)

NextSettings ==
    \/ \E it \in SettingsItems, kw \in SettingsOptions : New(it, kw)
    \/ \E o \in Live : New(Val(item[o]), settings(o))
    \/ \E o \in Objs, t \in {None, Some(T1)} : SetTransformation(o, t)
    \/ \E o \in Objs, b \in {Some(TRUE), Some(FALSE)} : SetShow(o, b)
    \/ \E o \in Objs, b \in {Some(TRUE), Some(FALSE)} : SetShowEdges(o, b)
    \/ \E o \in Objs : ReadSettings(o)

SpecSettings == InitSettings /\ [][NextSettings]_vars

\* C11: a scene object constructed for the item of an object o of the same
\* class, with o.settings as its keyword options, has settings equal to
\* o.settings.
C11_SettingsReconstruct ==
    (last.op = "new" /\ last.ret.kind = "value") =>
        LET n == last.ret.val
        IN  \A o \in Live \ {n} :
                (/\ cls[o] = cls[n]
                 /\ item[o] = item[n]
                 /\ last.args[3] = settings(o))
                => settings(n) = settings(o)

\* C12: a MeshObject constructed without the options show_vertices,
\* show_edges and show_faces has show_vertices = False, show_edges = True and
\* show_faces = True.
C12_ShowDefaults ==
    (/\ last.op = "new" /\ last.ret.kind = "value"
     /\ cls[last.ret.val] = "MeshObject"
     /\ DOMAIN last.args[3] \cap {"show_vertices", "show_edges", "show_faces"} = {})
    => /\ show_vertices[last.ret.val] = Some(FALSE)
       /\ show_edges[last.ret.val] = Some(TRUE)
       /\ show_faces[last.ret.val] = Some(TRUE)

====
